---- MODULE Spec2Model ----
(***************************************************************************)
(* Model of the PPE-detection upload backend: the /upload pipeline of the  *)
(* server variants (index.js, the local multi-frame server, the Render     *)
(* server, the Render server with signup/login, server.js with bearer      *)
(* authentication), resizeAndCompressImage, and signup/login over the      *)
(* Users and Logs tables.                                                  *)
(***************************************************************************)
EXTENDS Integers, Sequences, FiniteSets, TLC

----------------------------------------------------------------------------
(* Bounds of the model *)

MaxUploads == 2      \* upload requests handled by one server
MaxHalfSecs == 6     \* longest video, in half seconds
MaxPasses == 3       \* encodes of one frame that are followed
MaxLogins == 3       \* login attempts
MaxUsers == 1        \* rows of the Users table
MaxTime == 2         \* clock ticks, in hours
MaxConcHalfSecs == 3 \* length of a video uploaded concurrently, in half seconds
MaxSignups == 2      \* signup requests
MaxPersons == 2      \* persons of a detector response
MaxDetections == 2   \* body parts and equipment detections of a person, together

----------------------------------------------------------------------------
(* Program constants *)

MaxMB == 5           \* while (fileSize > 5)
KB == 1024           \* resizedImageBuffer.length / 1024 / 1024
FirstWidth == 1280
FirstQuality == 80
SecondWidth == 640
SecondQuality == 50
TokenTTL == 1        \* expiresIn: '1h'
FrameRate == 1       \* .fps(1)

----------------------------------------------------------------------------
(* The deployment variants *)

Variants == {"index", "local", "lambda", "render", "render_auth", "server", "authjs"}

\* variants that serve POST /upload
UploadVariants == {"index", "local", "render", "render_auth", "server"}

\* variants that define signup and login
LoginVariants == {"render_auth", "server", "authjs"}

\* multer.diskStorage: the upload is saved to ./uploads before the handler
DiskStorage(v) == v \in {"index", "local"}

\* the handler starts with if (!req.file) return res.status(400)...
ChecksFile(v) == v \in {"render", "render_auth", "server"}

\* the module requires jsonwebtoken, so that the identifier jwt is bound
JwtDefined(v) == v \in {"server", "authjs"}

\* the secret the variant signs and verifies with
SecretOf(v) == IF v = "authjs" THEN "your_jwt_secret" ELSE "env"

----------------------------------------------------------------------------
(* Inputs *)

UserNames == {"alice"}
LoginNames == {"alice", "mallory"}
Passwords == {"pw1", "pw2"}
Salts == {"s1"}
OrigName == "a.mp4"

\* video length in whole seconds, rounded up
CeilSecs(h) == (h + 1) \div 2

MaxFrames == CeilSecs(MaxHalfSecs) * FrameRate

Frames == 1..MaxFrames

\* byte lengths the image transcoder may produce, around the 5 MB ceiling
MaxBytes == MaxMB * KB * KB

Sizes == {MaxBytes, MaxBytes + 1}

----------------------------------------------------------------------------
(* bcrypt and jsonwebtoken *)

\* bcrypt.hash(password, 10): a salted digest; the salt is kept in the hash
BcryptHash(pw, salt) == [salt |-> salt, digest |-> <<salt, pw>>]

\* bcrypt.compare(password, hash): hashes the password with the hash's salt
BcryptCompare(pw, h) == BcryptHash(pw, h.salt).digest = h.digest

\* no token: split(' ')[1] is undefined
NoToken == [wellformed |-> FALSE, uid |-> 0, secret |-> "none", hasExp |-> FALSE, exp |-> 0]

\* jwt.sign({ user_id }, secret, { expiresIn: '1h' }) in server.js,
\* jwt.sign({ user_id }, 'your_jwt_secret') in auth.js
JwtSign(v, uid, t) ==
    [wellformed |-> TRUE, uid |-> uid, secret |-> SecretOf(v),
     hasExp |-> (v # "authjs"),
     exp |-> IF v # "authjs" THEN t + TokenTTL ELSE 0]

\* a verification that checks the signature and never the expiry
JwtVerifyNoExpiry(tok, secret, t) ==
    /\ tok.wellformed
    /\ tok.secret = secret

\* jwt.verify(token, secret): throws unless the token is a JWT signed with
\* the secret and, when it carries exp, the clock is before exp
JwtVerify(tok, secret, t) ==
    /\ tok.wellformed
    /\ tok.secret = secret
    /\ (tok.hasExp => t < tok.exp)

\* req.headers.authorization && req.headers.authorization.split(' ')[1]
HeaderToken(h) ==
    IF h.kind \in {"absent", "oneWord"} THEN NoToken ELSE h.tok

----------------------------------------------------------------------------
(* The relational store *)

LogCols == {"user_id", "action", "login_time", "failed_requests", "successful_requests"}

\* the value a column takes when the INSERT does not name it
LogDefault(c) ==
    IF c \in {"failed_requests", "successful_requests"} THEN 0
    ELSE IF c = "action" THEN "null" ELSE 0 - 1

\* INSERT INTO Logs (cols) VALUES (vals): an error, and no row, unless the
\* column count matches the value count
SqlInsertLog(table, cols, vals) ==
    IF Len(cols) # Len(vals) THEN table
    ELSE Append(table,
           [c \in LogCols |->
              IF \E k \in 1..Len(cols) : cols[k] = c
              THEN vals[CHOOSE k \in 1..Len(cols) : cols[k] = c]
              ELSE LogDefault(c)])

\* UPDATE Logs SET col = col + 1 WHERE user_id = ? AND action = 'upload'
SqlIncrement(table, col, uid) ==
    [k \in 1..Len(table) |->
       IF table[k]["user_id"] = uid /\ table[k]["action"] = "upload"
       THEN [table[k] EXCEPT ![col] = @ + 1]
       ELSE table[k]]

\* SELECT * FROM Users WHERE username = ?
SqlSelectUser(table, name) ==
    LET Match(r) == r.username = name IN SelectSeq(table, Match)

\* the login handler's INSERT INTO Logs (user_id, action, login_time)
LoginLogInsert(table, uid, t) ==
    SqlInsertLog(table, <<"user_id", "action", "login_time">>, <<uid, "login", t>>)

\* the upload handler's INSERT INTO Logs of its catch block: five columns,
\* three values
UploadLogInsert(table, uid, t) ==
    SqlInsertLog(table,
                 <<"user_id", "action", "login_time", "failed_requests", "successful_requests">>,
                 <<uid, "upload", t>>)

----------------------------------------------------------------------------
(* State *)

VARIABLES
    variant,      \* the server file that is running
    now,          \* the clock, in hours
    users,        \* the Users table: rows in insertion order
    secrets,      \* per user_id: the password the user signed up with
    logs,         \* the Logs table: rows in insertion order
    issued,       \* the tokens login has returned
    lastLogin,    \* the last POST /login: its input and its response
    nlogin,       \* login attempts so far
    wrongTries,   \* per user_id: logins with a password that does not match
    goodLogin,    \* the user_ids that logged in with the matching password
    frames,       \* the frame folder: frame index -> the upload it shows, 0 = no file
    videoFile,    \* the video files: name -> the upload it holds, 0 = no file
    shot,         \* index.js: the screenshot <name>_frame.jpg, 0 = no file
    req,          \* the upload requests in flight, per connection
    nreq,         \* upload requests so far
    completed,    \* per user_id: uploads whose pipeline completed
    failed,       \* per user_id: uploads whose pipeline failed
    signups,      \* the POST /signup requests in flight, per connection
    analysis      \* analyzePPEInImage: the detector's Persons and the records made of them

vars == <<variant, now, users, secrets, logs, issued, lastLogin, nlogin, wrongTries,
          goodLogin, frames, videoFile, shot, req, nreq, completed, failed, signups, analysis>>

authVars == <<users, secrets, logs, issued, lastLogin, nlogin, wrongTries, goodLogin>>

fsVars == <<frames, videoFile, shot>>

uploadVars == <<frames, videoFile, shot, req, nreq, completed, failed>>

UserIds == 1..MaxUsers

VideoNames == {"uploaded_video.mp4", OrigName}

\* the video path of the variant: server.js writes a fixed name, the others
\* use the upload's original name
VideoPath(v) == IF v = "server" THEN "uploaded_video.mp4" ELSE OrigName

NoResponse == [status |-> 0, json |-> FALSE, success |-> "none",
               hasToken |-> FALSE, token |-> NoToken, error |-> "none"]

NoLogin == [name |-> "none", password |-> "none", dbErr |-> FALSE,
            found |-> FALSE, match |-> FALSE, uid |-> 0, resp |-> NoResponse]

NoBuffer == [width |-> 0, quality |-> 0, length |-> 0]

\* no detector response is being turned into records
NoAnalysis == [persons |-> <<>>, results |-> <<>>, done |-> FALSE]

IdleReq == [pc |-> "idle", id |-> 0, hasFile |-> FALSE, halfSecs |-> 0,
            cred |-> "none", user_id |-> 0, files |-> <<>>, i |-> 0, src |-> 0,
            enc |-> <<>>, buf |-> NoBuffer, ppeData |-> <<>>, detFailed |-> {}, resp |-> <<>>,
            did |-> {}, fresh |-> FALSE, submitted |-> <<>>, resizes |-> 0, calls |-> 0,
            parity |-> 0]

----------------------------------------------------------------------------
(* The clock *)

Tick ==
    /\ variant = "server"
    /\ now < MaxTime
    /\ now' = now + 1
    /\ UNCHANGED <<variant, signups, analysis, authVars, uploadVars>>

----------------------------------------------------------------------------
(* POST /signup *)

\* signup of server.js and of the Render server with login: SELECT, then
\* INSERT unless a row exists; signup of auth.js: INSERT
SignupResult(v, table, name, pw, salt, selErr, insErr) ==
    IF v # "authjs" /\ selErr THEN table
    ELSE IF v # "authjs" /\ Len(SqlSelectUser(table, name)) > 0 THEN table
    ELSE IF insErr THEN table
    ELSE Append(table, [user_id |-> Len(table) + 1, username |-> name,
                        password_hash |-> BcryptHash(pw, salt)])

Signup ==
    /\ variant \in LoginVariants
    /\ Len(users) < MaxUsers
    /\ \E name \in UserNames, pw \in Passwords, salt \in Salts, selErr, insErr \in BOOLEAN :
          /\ users' = SignupResult(variant, users, name, pw, salt, selErr, insErr)
          /\ users' # users
          /\ secrets' = Append(secrets, pw)
    /\ UNCHANGED <<variant, signups, analysis, now, logs, issued, lastLogin, nlogin, wrongTries,
                   goodLogin, uploadVars>>

\* the connections of two clients
Connections == {"r1", "r2"}

IdleSignup == [pc |-> "idle", name |-> "none", password |-> "none", existed |-> FALSE,
               inserted |-> FALSE, status |-> 0, error |-> "none"]

NoSignups == [c \in Connections |-> IdleSignup]

SignupsSoFar == Cardinality({c \in Connections : signups[c].pc # "idle"})

\* POST /signup arrives: server.js and the Render server with login send the
\* SELECT, auth.js awaits bcrypt.hash
SignupStart(c) ==
    /\ variant \in LoginVariants
    /\ signups[c].pc = "idle"
    /\ SignupsSoFar < MaxSignups
    /\ \E name \in UserNames, pw \in Passwords :
          signups' = [signups EXCEPT ![c] =
              [IdleSignup EXCEPT !.name = name, !.password = pw,
                                 !.pc = IF variant = "authjs" THEN "hash" ELSE "select"]]
    /\ UNCHANGED <<variant, now, analysis, authVars, uploadVars>>

\* the request after the callback of the SELECT: 500 on a query error, 400
\* when a row has the username, otherwise await bcrypt.hash
Selected(r, result, err) ==
    IF err THEN [r EXCEPT !.pc = "done", !.status = 500, !.error = "Database error"]
    ELSE IF Len(result) > 0
    THEN [r EXCEPT !.pc = "done", !.status = 400, !.error = "User already exists",
                   !.existed = TRUE]
    ELSE [r EXCEPT !.pc = "hash"]

SignupSelected(c) ==
    /\ signups[c].pc = "select"
    /\ \E err \in BOOLEAN :
          signups' = [signups EXCEPT ![c] =
              Selected(@, SqlSelectUser(users, signups[c].name), err)]
    /\ UNCHANGED <<variant, now, analysis, authVars, uploadVars>>

\* bcrypt.hash resolves: the INSERT is sent
SignupHashed(c) ==
    /\ signups[c].pc = "hash"
    /\ signups' = [signups EXCEPT ![c] = [@ EXCEPT !.pc = "insert"]]
    /\ UNCHANGED <<variant, now, analysis, authVars, uploadVars>>

\* the INSERT runs and its callback answers: 500 on an error, otherwise the
\* row is in the table and the answer is { success: true }
SignupInserted(c) ==
    /\ signups[c].pc = "insert"
    /\ \E salt \in Salts, err \in BOOLEAN :
          LET existed == Len(SqlSelectUser(users, signups[c].name)) > 0 IN
          IF err
          THEN /\ signups' = [signups EXCEPT ![c] =
                     [@ EXCEPT !.pc = "done", !.status = 500, !.error = "Database error",
                               !.existed = existed]]
               /\ UNCHANGED <<users, secrets>>
          ELSE /\ signups' = [signups EXCEPT ![c] =
                     [@ EXCEPT !.pc = "done", !.status = 200, !.inserted = TRUE,
                               !.existed = existed]]
               /\ users' = Append(users, [user_id |-> Len(users) + 1,
                                          username |-> signups[c].name,
                                          password_hash |-> BcryptHash(signups[c].password, salt)])
               /\ secrets' = Append(secrets, signups[c].password)
    /\ UNCHANGED <<variant, now, analysis, logs, issued, lastLogin, nlogin, wrongTries,
                   goodLogin, uploadVars>>

----------------------------------------------------------------------------
(* POST /login *)

LoginError == [status |-> 400, json |-> TRUE, success |-> "none",
               hasToken |-> FALSE, token |-> NoToken, error |-> "Invalid credentials"]

LoginOk(tok) == [status |-> 200, json |-> TRUE, success |-> "true",
                 hasToken |-> TRUE, token |-> tok, error |-> "none"]

\* a login that signs a token for whoever is found, the password unchecked
LoginResponseNoCompare(v, table, name, pw, dbErr, t) ==
    LET result == SqlSelectUser(table, name) IN
    IF dbErr \/ Len(result) = 0
    THEN [status |-> 400, json |-> TRUE, success |-> "none", hasToken |-> FALSE,
          token |-> NoToken, error |-> "Invalid credentials"]
    ELSE [status |-> 200, json |-> TRUE, success |-> "true", hasToken |-> TRUE,
          token |-> JwtSign(v, result[1].user_id, t), error |-> "none"]

\* a login that tells an unknown username from a wrong password
LoginResponseLeaks(v, table, name, pw, dbErr, t) ==
    LET result == SqlSelectUser(table, name) IN
    IF dbErr THEN LoginError
    ELSE IF Len(result) = 0
    THEN [status |-> 404, json |-> TRUE, success |-> "none", hasToken |-> FALSE,
          token |-> NoToken, error |-> "User not found"]
    ELSE IF ~BcryptCompare(pw, result[1].password_hash) THEN LoginError
    ELSE IF ~JwtDefined(v) THEN NoResponse
    ELSE LoginOk(JwtSign(v, result[1].user_id, t))

\* the response of login: 400 on a query error, an unknown username or a
\* password that does not match; otherwise jwt.sign and res.json, where a
\* module that never binds jwt throws a ReferenceError and sends nothing
LoginResponse(v, table, name, pw, dbErr, t) ==
    LET result == SqlSelectUser(table, name) IN
    IF dbErr \/ Len(result) = 0 THEN LoginError
    ELSE IF ~BcryptCompare(pw, result[1].password_hash) THEN LoginError
    ELSE IF ~JwtDefined(v) THEN NoResponse
    ELSE LoginOk(JwtSign(v, result[1].user_id, t))

\* the Logs table after login: server.js inserts a 'login' row once the
\* token is signed
LoginLogs(v, table, resp, uid, t, logErr) ==
    IF v = "server" /\ resp.hasToken /\ ~logErr
    THEN LoginLogInsert(table, uid, t)
    ELSE table

Login ==
    /\ variant \in LoginVariants
    /\ nlogin < MaxLogins
    /\ \E name \in LoginNames, pw \in Passwords, dbErr, logErr \in BOOLEAN :
          LET result == SqlSelectUser(users, name)
              found == ~dbErr /\ Len(result) > 0
              uid == IF found THEN result[1].user_id ELSE 0
              match == found /\ pw = secrets[uid]
              resp == LoginResponse(variant, users, name, pw, dbErr, now)
          IN  /\ lastLogin' = [name |-> name, password |-> pw, dbErr |-> dbErr,
                               found |-> found, match |-> match, uid |-> uid,
                               resp |-> resp]
              /\ issued' = IF resp.hasToken THEN issued \cup {resp.token} ELSE issued
              /\ logs' = LoginLogs(variant, logs, resp, uid, now, logErr)
              /\ wrongTries' = IF found /\ ~match
                               THEN [wrongTries EXCEPT ![uid] = @ + 1]
                               ELSE wrongTries
              /\ goodLogin' = IF match THEN goodLogin \cup {uid} ELSE goodLogin
    /\ nlogin' = nlogin + 1
    /\ UNCHANGED <<variant, signups, analysis, now, users, secrets, uploadVars>>

----------------------------------------------------------------------------
(* Initial states *)

\* the folder and the requests of a server that has just started
FreshUploads ==
    /\ frames = [n \in Frames |-> 0]
    /\ videoFile = [f \in VideoNames |-> 0]
    /\ shot = 0
    /\ req = [s \in {"r1"} |-> IdleReq]
    /\ nreq = 0
    /\ completed = [u \in UserIds |-> 0]
    /\ failed = [u \in UserIds |-> 0]

\* a database nobody has signed up to
EmptyStore ==
    /\ users = <<>>
    /\ secrets = <<>>
    /\ logs = <<>>
    /\ issued = {}
    /\ lastLogin = NoLogin
    /\ nlogin = 0
    /\ wrongTries = [u \in UserIds |-> 0]
    /\ goodLogin = {}

\* the database of server.js after alice has signed up and logged in at
\* time 0: one Users row, one 'login' Logs row, one token in a client's hands
SeededStore ==
    LET tok == JwtSign("server", 1, 0) IN
    /\ users = <<[user_id |-> 1, username |-> "alice",
                  password_hash |-> BcryptHash("pw1", "s1")]>>
    /\ secrets = <<"pw1">>
    /\ logs = LoginLogInsert(<<>>, 1, 0)
    /\ issued = {tok}
    /\ lastLogin = [name |-> "alice", password |-> "pw1", dbErr |-> FALSE,
                    found |-> TRUE, match |-> TRUE, uid |-> 1, resp |-> LoginOk(tok)]
    /\ nlogin = 1
    /\ wrongTries = [u \in UserIds |-> 0]
    /\ goodLogin = {1}

\* a server that serves /upload starts; the database of server.js holds a
\* user who has logged in
Init ==
    /\ variant \in UploadVariants
    /\ now = 0
    /\ signups = NoSignups
    /\ IF variant = "server" THEN SeededStore ELSE EmptyStore
    /\ FreshUploads
    /\ analysis = NoAnalysis

\* a server that serves /upload to two clients at once starts
InitConc ==
    /\ variant \in UploadVariants
    /\ now = 0
    /\ signups = NoSignups
    /\ IF variant = "server" THEN SeededStore ELSE EmptyStore
    /\ frames = [n \in Frames |-> 0]
    /\ videoFile = [f \in VideoNames |-> 0]
    /\ shot = 0
    /\ req = [s \in Connections |-> IdleReq]
    /\ nreq = 0
    /\ completed = [u \in UserIds |-> 0]
    /\ failed = [u \in UserIds |-> 0]
    /\ analysis = NoAnalysis

\* a server that serves /signup and /login starts on an empty database
InitAuth ==
    /\ variant \in LoginVariants
    /\ now = 0
    /\ signups = NoSignups
    /\ EmptyStore
    /\ FreshUploads
    /\ analysis = NoAnalysis

----------------------------------------------------------------------------
(* POST /upload: the request and its responses *)

\* a JSON body { success, ppeData?, error? }; ppeKind tells what the ppeData
\* member is: a list of per-frame entries, or absent
UploadResponse(status, success, hasPpe, ppe, error) ==
    [status |-> status, json |-> TRUE, success |-> success, hasPpe |-> hasPpe,
     ppeKind |-> IF hasPpe THEN "list" ELSE "none", ppe |-> ppe, error |-> error]

\* the body of index.js on success: ppeData is the detector's result object
\* itself
RawResponse(entry) ==
    [UploadResponse(200, "true", TRUE, <<entry>>, "none") EXCEPT !.ppeKind = "object"]

\* what Express answers when the async handler rejects: Express 4 leaves the
\* rejection unhandled and sends nothing, Express 5 hands it to the default
\* error handler, which sends a 500 page that is not JSON
UnhandledOutcomes ==
    { <<>>,
      << [status |-> 500, json |-> FALSE, success |-> "none", hasPpe |-> FALSE,
          ppeKind |-> "none", ppe |-> <<>>, error |-> "none"] >> }

\* a token signed with another secret, and a string that is no JWT
ForgedToken(t) == [wellformed |-> TRUE, uid |-> 1, secret |-> "attacker",
                   hasExp |-> TRUE, exp |-> t + TokenTTL]

GarbageToken == [wellformed |-> FALSE, uid |-> 0, secret |-> "none",
                 hasExp |-> FALSE, exp |-> 0]

\* the Authorization headers a client may send: none, a single word, or two
\* words (the first word, the scheme, is never inspected by the handler)
Headers(t) ==
    {[kind |-> "absent", tok |-> NoToken], [kind |-> "oneWord", tok |-> NoToken]}
    \cup {[kind |-> "twoWords", tok |-> tk] : tk \in issued \cup {ForgedToken(t), GarbageToken}}

\* what the credential of a header is, whatever the handler makes of it
CredentialClass(v, h, t) ==
    IF h.kind = "absent" THEN "absent"
    ELSE IF h.kind = "oneWord" \/ ~h.tok.wellformed THEN "malformed"
    ELSE IF h.tok \notin issued THEN "badsig"
    ELSE IF h.tok.hasExp /\ t >= h.tok.exp THEN "expired"
    ELSE "valid"

\* how many frames ffmpeg may write for a video at one frame per second:
\* within half a second of its length, never more than the length rounded up
FrameCounts(h) ==
    {n \in Frames : n >= 1 /\ 2 * n <= (h + 1) * FrameRate /\ 2 * n >= (h - 1) * FrameRate}

\* fs.readdirSync(folder).filter(file => file.endsWith('.png')): the frame
\* files of the folder, in name order (frame-001.png, frame-002.png, ...)
RECURSIVE ReadDirFrom(_, _)
ReadDirFrom(fr, n) ==
    IF n > MaxFrames THEN <<>>
    ELSE (IF fr[n] # 0 THEN <<n>> ELSE <<>>) \o ReadDirFrom(fr, n + 1)

ReadDir(fr) == ReadDirFrom(fr, 1)

\* the first statement of the server.js handler: verify the bearer token
AuthRejects(v, h, t) ==
    v = "server" /\ ~JwtVerify(HeaderToken(h), SecretOf(v), t)

InFlight(s) == req[s].pc \notin {"idle", "done", "crashed"}

\* the handler up to its first await: token check, file check, writing the
\* video, starting ffmpeg
\* the argument is the set of video lengths the clients may send, in half
\* seconds (0: a request without a file)
StartUploadOf(s, lengths) ==
    /\ variant \in UploadVariants
    /\ nreq < MaxUploads
    /\ ~InFlight(s)
    /\ \E hs \in lengths, h \in Headers(now) :
         LET hasFile == hs > 0
             r0 == [IdleReq EXCEPT !.id = nreq + 1, !.hasFile = hasFile,
                                   !.halfSecs = hs,
                                   !.fresh = \A n \in Frames : frames[n] = 0,
                                   !.cred = IF variant = "server"
                                            THEN CredentialClass(variant, h, now)
                                            ELSE "none"]
         IN  /\ (variant # "server" => h.kind = "absent")
             /\ IF AuthRejects(variant, h, now)
                THEN /\ req' = [req EXCEPT ![s] =
                           [r0 EXCEPT !.pc = "done",
                                      !.resp = <<UploadResponse(401, "false", FALSE, <<>>, "Invalid token")>>]]
                     /\ UNCHANGED videoFile
                ELSE IF ~hasFile /\ ChecksFile(variant)
                THEN /\ req' = [req EXCEPT ![s] =
                           [r0 EXCEPT !.pc = "done",
                                      !.user_id = HeaderToken(h).uid,
                                      !.resp = <<UploadResponse(400, "false", FALSE, <<>>, "No file uploaded")>>]]
                     /\ UNCHANGED videoFile
                ELSE IF ~hasFile
                THEN /\ \E out \in UnhandledOutcomes :
                           req' = [req EXCEPT ![s] = [r0 EXCEPT !.pc = "crashed", !.resp = out]]
                     /\ UNCHANGED videoFile
                ELSE /\ req' = [req EXCEPT ![s] =
                           [r0 EXCEPT !.pc = "extract",
                                      !.user_id = HeaderToken(h).uid,
                                      !.did = {"write"}]]
                     /\ videoFile' = [videoFile EXCEPT ![VideoPath(variant)] = nreq + 1]
    /\ nreq' = nreq + 1
    /\ UNCHANGED <<variant, signups, analysis, now, authVars, frames, shot, completed, failed>>

StartUpload(s) == StartUploadOf(s, 0..MaxHalfSecs)

\* an upload of one client while another client's upload may be in flight
StartUploadConc(s) == StartUploadOf(s, 1..MaxConcHalfSecs)

----------------------------------------------------------------------------
(* POST /upload: the catch block and the success path of the handler *)

FailResponse(msg) == UploadResponse(500, "false", FALSE, <<>>, msg)

\* the Logs table after the catch block: server.js increments failed_requests
\* of the user's 'upload' rows, answers, then inserts an 'upload' row
CatchLogs(v, table, uid, t) ==
    IF v = "server"
    THEN UploadLogInsert(SqlIncrement(table, "failed_requests", uid), uid, t)
    ELSE table

\* the Logs table after the try block: server.js increments
\* successful_requests of the user's 'upload' rows
SuccessLogs(v, table, uid) ==
    IF v = "server" THEN SqlIncrement(table, "successful_requests", uid) ELSE table

\* the request as the catch block leaves it
Caught(r, msg) ==
    [r EXCEPT !.pc = "done", !.resp = Append(@, FailResponse(msg)), !.enc = <<>>,
              !.buf = NoBuffer, !.parity = 0,
              !.did = IF variant = "server" THEN @ \cup {"db"} ELSE @]

CountFailure(s) ==
    failed' = IF variant = "server"
              THEN [failed EXCEPT ![req[s].user_id] = @ + 1]
              ELSE failed

\* the loop of analyzePPEInFrames moves to the next file, or returns
NextFrame(r) ==
    IF r.i < Len(r.files)
    THEN [r EXCEPT !.i = @ + 1, !.pc = "encode", !.enc = <<>>, !.buf = NoBuffer, !.src = 0,
                   !.resizes = @ + 1, !.parity = 0]
    ELSE [r EXCEPT !.pc = "tail", !.enc = <<>>, !.buf = NoBuffer, !.src = 0, !.parity = 0]

\* analyzePPEInFrames starts: list the folder, take the first file
StartFrames(r, fr) ==
    LET files == ReadDir(fr) IN
    IF Len(files) = 0
    THEN [r EXCEPT !.files = files, !.pc = "tail"]
    ELSE [r EXCEPT !.files = files, !.i = 1, !.pc = "encode", !.resizes = @ + 1]

\* ffmpeg 'end': the frames are written; index.js reads its one screenshot
\* and calls the detector, the others start analyzePPEInFrames
ExtractEnd(s) ==
    /\ req[s].pc = "extract"
    /\ IF variant = "index"
       THEN /\ shot' = req[s].id
            /\ req' = [req EXCEPT ![s] =
                  [@ EXCEPT !.pc = "detect", !.src = req[s].id,
                            !.submitted = Append(@, 0), !.calls = @ + 1,
                            !.did = @ \cup {"extract", "detect"}]]
            /\ UNCHANGED frames
       ELSE /\ \E k \in FrameCounts(req[s].halfSecs) :
                 frames' = [n \in Frames |-> IF n <= k THEN req[s].id ELSE frames[n]]
            /\ req' = [req EXCEPT ![s] =
                  StartFrames([@ EXCEPT !.did = @ \cup {"extract"}], frames')]
            /\ UNCHANGED shot
    /\ UNCHANGED <<variant, signups, analysis, now, authVars, videoFile, nreq, completed, failed>>

\* ffmpeg 'error': some of the frames may be written; the handler's catch
\* block (index.js: the error listener) answers 500
ExtractError(s) ==
    /\ req[s].pc = "extract"
    /\ IF variant = "index"
       THEN UNCHANGED frames
       ELSE \E k \in FrameCounts(req[s].halfSecs), j \in 0..MaxFrames :
               /\ j < k
               /\ frames' = [n \in Frames |-> IF n <= j THEN req[s].id ELSE frames[n]]
    /\ req' = [req EXCEPT ![s] =
          Caught([@ EXCEPT !.did = @ \cup {"extract", "extractError"}], "Error processing video")]
    /\ logs' = CatchLogs(variant, logs, req[s].user_id, now)
    /\ CountFailure(s)
    /\ UNCHANGED <<variant, signups, analysis, now, users, secrets, issued, lastLogin, nlogin,
                   wrongTries, goodLogin, videoFile, shot, nreq, completed>>

----------------------------------------------------------------------------
(* resizeAndCompressImage *)

\* the ceiling itself taken as too large
TooLargeOrEqual(len) == len >= MaxMB * KB * KB

\* while (fileSize > 5), with fileSize = length / 1024 / 1024: the division
\* by a power of two is exact, so the test is length > 5 * 1024 * 1024
TooLarge(len) == len > MaxMB * KB * KB

\* the resize and jpeg options of the next encode: 1280/80 for the first
\* pass, 640/50 for every pass of the loop
EncodeOptions(passes) ==
    IF passes = 0 THEN [width |-> FirstWidth, quality |-> FirstQuality]
    ELSE [width |-> SecondWidth, quality |-> SecondQuality]

\* the buffer returned as it is, its size never looked at
AfterEncodeNoCheck(len) == "detect"

\* where resizeAndCompressImage goes after an encode of the given length:
\* once more round the loop, or return to the caller, which calls the detector
AfterEncode(len) == IF TooLarge(len) THEN "encode" ELSE "detect"

\* the encodes of the current frame that are remembered: the first one and
\* the latest ones, MaxPasses in all
Remembered(enc, buf) ==
    IF Len(enc) < MaxPasses THEN Append(enc, buf)
    ELSE <<enc[1]>> \o SubSeq(enc, 3, Len(enc)) \o <<buf>>

\* sharp(...).toBuffer() resolves with a buffer of some length; parity tells
\* an odd number of encodes of the frame from an even one
EncodeDone(s) ==
    /\ req[s].pc = "encode"
    /\ (Len(req[s].enc) = 0 => frames[req[s].files[req[s].i]] # 0)
    /\ \E len \in Sizes :
         LET opt == EncodeOptions(Len(req[s].enc))
             buf == [width |-> opt.width, quality |-> opt.quality, length |-> len]
         IN  req' = [req EXCEPT ![s] =
                 [@ EXCEPT !.enc = Remembered(@, buf),
                           !.parity = 1 - @,
                           !.buf = buf,
                           !.src = IF Len(req[s].enc) = 0
                                   THEN frames[req[s].files[req[s].i]] ELSE @,
                           !.pc = AfterEncode(len),
                           !.resizes = IF AfterEncode(len) = "detect" THEN @ - 1 ELSE @,
                           !.calls = IF AfterEncode(len) = "detect" THEN @ + 1 ELSE @,
                           !.submitted = IF AfterEncode(len) = "detect"
                                         THEN Append(@, req[s].files[req[s].i]) ELSE @,
                           !.did = @ \cup (IF AfterEncode(len) = "detect"
                                           THEN {"resize", "detect"} ELSE {"resize"})]]
    /\ UNCHANGED <<variant, signups, analysis, now, authVars, fsVars, nreq, completed, failed>>

\* a resize failure that is caught inside the loop like a detector failure:
\* the frame is dropped and the loop goes on
ResizeFailedSkips(r) ==
    NextFrame([r EXCEPT !.did = @ \cup {"resize", "resizeError"}, !.resizes = @ - 1])

\* the request after resizeAndCompressImage throws: the await in the loop of
\* analyzePPEInFrames is outside the try, so the handler's catch block answers
ResizeFailed(r) ==
    Caught([r EXCEPT !.did = @ \cup {"resize", "resizeError"}, !.resizes = @ - 1],
           "Input file is missing")

\* sharp(...).toBuffer() rejects: resizeAndCompressImage logs and rethrows
EncodeThrow(s) ==
    /\ req[s].pc = "encode"
    /\ req' = [req EXCEPT ![s] = ResizeFailed(@)]
    /\ logs' = CatchLogs(variant, logs, req[s].user_id, now)
    /\ CountFailure(s)
    /\ UNCHANGED <<variant, signups, analysis, now, users, secrets, issued, lastLogin, nlogin,
                   wrongTries, goodLogin, fsVars, nreq, completed>>

----------------------------------------------------------------------------
(* The detector call and the end of the request *)

\* an entry put in front of the list instead of after it
PushEntryFront(q, e) == <<e>> \o q

\* ppeData.push({ file, ppeResult })
PushEntry(q, e) == Append(q, e)

\* detectProtectiveEquipment resolves: analyzePPEInFrames pushes
\* { file, ppeResult } and goes on; index.js answers with the result
DetectOk(s) ==
    /\ req[s].pc = "detect"
    /\ LET entry == [file |-> IF variant = "index" THEN 0 ELSE req[s].files[req[s].i],
                     src |-> req[s].src]
       IN  req' = [req EXCEPT ![s] =
               IF variant = "index"
               THEN [@ EXCEPT !.pc = "done", !.ppeData = <<entry>>, !.calls = @ - 1,
                              !.resp = Append(@, RawResponse(entry))]
               ELSE NextFrame([@ EXCEPT !.ppeData = PushEntry(@, entry), !.calls = @ - 1])]
    /\ UNCHANGED <<variant, signups, analysis, now, authVars, fsVars, nreq, completed, failed>>

\* a detector failure that is not caught inside the loop and reaches the
\* handler's catch block
DetectFailedAborts(r, v) ==
    Caught([r EXCEPT !.detFailed = @ \cup {IF v = "index" THEN 0 ELSE r.files[r.i]}],
           "Error detecting PPE")

\* a detector failure after which the same frame is submitted again
DetectFailedRetries(r, v) ==
    [r EXCEPT !.detFailed = @ \cup {IF v = "index" THEN 0 ELSE r.files[r.i]},
              !.submitted = Append(@, IF v = "index" THEN 0 ELSE r.files[r.i])]

\* the request after detectProtectiveEquipment rejects: the catch inside the
\* loop of analyzePPEInFrames logs the error and the loop goes on to the
\* next file; index.js answers 500
DetectFailed(r, v) ==
    IF v = "index"
    THEN [r EXCEPT !.pc = "done", !.detFailed = {0}, !.calls = @ - 1,
                   !.resp = Append(@, FailResponse("Error detecting PPE"))]
    ELSE NextFrame([r EXCEPT !.detFailed = @ \cup {r.files[r.i]}, !.calls = @ - 1])

DetectFail(s) ==
    /\ req[s].pc = "detect"
    /\ req' = [req EXCEPT ![s] = DetectFailed(req[s], variant)]
    /\ UNCHANGED <<variant, signups, analysis, now, authVars, fsVars, nreq, completed, failed>>

\* the folder after the cleanup of the Render servers: the video is unlinked,
\* then every file of the folder; the other servers clean nothing
CleanedFrames(v, fr) ==
    IF v \in {"render", "render_auth"} THEN [n \in Frames |-> 0] ELSE fr

CleanedVideos(v, vf) ==
    IF v \in {"render", "render_auth"} THEN [f \in VideoNames |-> 0] ELSE vf

\* fs.unlinkSync(videoPath) of the Render servers throws when the video is
\* no longer there
UnlinkThrows(v, vf) ==
    v \in {"render", "render_auth"} /\ vf[VideoPath(v)] = 0

\* analyzePPEInFrames has returned: cleanup, counter, res.json; a cleanup
\* that throws goes to the catch block
Finish(s) ==
    /\ req[s].pc = "tail"
    /\ IF UnlinkThrows(variant, videoFile)
       THEN /\ req' = [req EXCEPT ![s] =
                  Caught([@ EXCEPT !.did = @ \cup {"unlinkError"}],
                         "ENOENT: no such file or directory")]
            /\ UNCHANGED <<frames, videoFile, logs, completed>>
       ELSE /\ frames' = CleanedFrames(variant, frames)
            /\ videoFile' = CleanedVideos(variant, videoFile)
            /\ logs' = SuccessLogs(variant, logs, req[s].user_id)
            /\ completed' = IF variant = "server"
                            THEN [completed EXCEPT ![req[s].user_id] = @ + 1]
                            ELSE completed
            /\ req' = [req EXCEPT ![s] =
                  [@ EXCEPT !.pc = "done",
                            !.did = IF variant = "server" THEN @ \cup {"db"} ELSE @,
                            !.resp = Append(@, UploadResponse(200, "true", TRUE,
                                                              req[s].ppeData, "none"))]]
    /\ UNCHANGED <<variant, signups, analysis, now, users, secrets, issued, lastLogin, nlogin,
                   wrongTries, goodLogin, shot, nreq, failed>>

----------------------------------------------------------------------------
(* analyzePPEInImage: from the detector's response to the per-person records *)

\* the servers whose analyzePPEInImage builds per-person records (index.js
\* returns the response as it is)
PPEVariants == {"local", "lambda", "render", "render_auth", "server"}

\* the body part names and equipment types the servers test for
PartNames == {"FACE", "HEAD", "BODY", "HAND", "LEFT_HAND", "RIGHT_HAND"}

EquipTypes == {"FACE_COVER", "HEAD_COVER", "BODY_COVER", "HAND_COVER"}

\* confidences, in percent
EquipConfidences == {90, 99}

PartConfidences == {95}

PersonConfidences == {97}

Equipments == [Type : EquipTypes, Confidence : EquipConfidences]

\* the body parts with e equipment detections
BodyParts(e) == [Name : PartNames, Confidence : PartConfidences,
                 EquipmentDetections : [1..e -> Equipments]]

\* the lists of body parts that hold at most d body parts and equipment
\* detections together
RECURSIVE BodyPartLists(_)
BodyPartLists(d) ==
    IF d = 0 THEN {<<>>}
    ELSE {<<>>} \cup
         UNION {{<<bp>> \o rest : bp \in BodyParts(e), rest \in BodyPartLists(d - 1 - e)} :
                    e \in 0..(d - 1)}

Persons(d) == [Confidence : PersonConfidences, BodyParts : BodyPartLists(d)]

\* a person of whom the detector reports no body part
BarePerson == [Confidence |-> CHOOSE c \in PersonConfidences : TRUE, BodyParts |-> <<>>]

\* the responses considered: up to m persons, one of them arbitrary, the
\* others without body parts
Responses(m, d) ==
    {<<>>} \cup
    {[i \in 1..n |-> IF i = at THEN who ELSE BarePerson] :
        n \in 1..m, at \in 1..m, who \in Persons(d)}

\* person.BodyParts.filter(bp => bp.Name === name)
PartsNamed(person, name) ==
    SelectSeq(person.BodyParts, LAMBDA bp : bp.Name = name)

\* person.BodyParts.some(bp => bp.Name === name)
PartDetected(person, name) == Len(PartsNamed(person, name)) > 0

\* a test for the equipment type on any body part, whatever its name
CoverDetectedAnywhere(person, name, type) ==
    \E k \in 1..Len(person.BodyParts) :
        \E j \in 1..Len(person.BodyParts[k].EquipmentDetections) :
            person.BodyParts[k].EquipmentDetections[j].Type = type

\* person.BodyParts.filter(bp => bp.Name === name)
\*     .some(bp => bp.EquipmentDetections.some(ed => ed.Type === type))
CoverDetected(person, name, type) ==
    \E k \in 1..Len(PartsNamed(person, name)) :
        \E j \in 1..Len(PartsNamed(person, name)[k].EquipmentDetections) :
            PartsNamed(person, name)[k].EquipmentDetections[j].Type = type

\* the value undefined
Undefined == 0 - 1

\* person.BodyParts.filter(bp => bp.Name === name).map(bp => bp.Confidence)[0]
PartConfidenceOf(person, name) ==
    IF Len(PartsNamed(person, name)) = 0 THEN Undefined
    ELSE PartsNamed(person, name)[1].Confidence

\* person.BodyParts.filter(bp => bp.Name === name)
\*     .map(bp => bp.EquipmentDetections[0]?.Confidence)[0]
CoverConfidenceOf(person, name) ==
    IF Len(PartsNamed(person, name)) = 0 THEN Undefined
    ELSE IF Len(PartsNamed(person, name)[1].EquipmentDetections) = 0 THEN Undefined
    ELSE PartsNamed(person, name)[1].EquipmentDetections[1].Confidence

\* cond ? 'true' : 'false'
FlagText(cond) == IF cond THEN "true" ELSE "false"

\* c ? c.toFixed(2) + '%' : 'N/A' (undefined and 0 are falsy)
ConfidenceText(c) ==
    IF c = Undefined \/ c = 0 THEN [text |-> "N/A", hundredths |-> 0]
    ELSE [text |-> "%", hundredths |-> c * 100]

\* the flags of the records, per server: the hands are one flag pair in
\* server.js and the Render server with login, two pairs in the local and
\* Lambda servers, absent in the first Render server
FlagKeys(v) ==
    {"Face detected", "Face mask detected", "Head detected", "Helmet detected",
     "Protective vest detected"}
    \cup (IF v \in {"server", "render_auth"} THEN {"Hands detected", "Gloves detected"}
          ELSE IF v \in {"local", "lambda"}
          THEN {"Left hand detected", "Left hand cover detected",
                "Right hand detected", "Right hand cover detected"}
          ELSE {})

\* the confidence fields of the records: only the local and Lambda servers
\* have any
ConfidenceKeys(v) ==
    IF v \in {"local", "lambda"}
    THEN {"Face mask detection confidence", "Head detection confidence",
          "Helmet detection confidence", "Protective vest detection confidence"}
    ELSE {}

\* the condition behind each flag
FlagTest(person, key) ==
    CASE key = "Face detected" -> PartDetected(person, "FACE")
      [] key = "Face mask detected" -> CoverDetected(person, "FACE", "FACE_COVER")
      [] key = "Head detected" -> PartDetected(person, "HEAD")
      [] key = "Helmet detected" -> CoverDetected(person, "HEAD", "HEAD_COVER")
      [] key = "Protective vest detected" -> CoverDetected(person, "BODY", "BODY_COVER")
      [] key = "Hands detected" -> PartDetected(person, "HAND")
      [] key = "Gloves detected" -> CoverDetected(person, "HAND", "HAND_COVER")
      [] key = "Left hand detected" -> PartDetected(person, "LEFT_HAND")
      [] key = "Left hand cover detected" -> CoverDetected(person, "LEFT_HAND", "HAND_COVER")
      [] key = "Right hand detected" -> PartDetected(person, "RIGHT_HAND")
      [] key = "Right hand cover detected" -> CoverDetected(person, "RIGHT_HAND", "HAND_COVER")

\* the value behind each confidence field
ConfidenceValue(person, key) ==
    CASE key = "Face mask detection confidence" -> CoverConfidenceOf(person, "FACE")
      [] key = "Head detection confidence" -> PartConfidenceOf(person, "HEAD")
      [] key = "Helmet detection confidence" -> CoverConfidenceOf(person, "HEAD")
      [] key = "Protective vest detection confidence" -> CoverConfidenceOf(person, "BODY")

\* the object pushed for one person: 'Person ID', 'Person detected', the
\* flags (strings 'true' / 'false') and the confidence texts
PersonResult(v, person, index) ==
    [id |-> index,
     detected |-> [text |-> "%", hundredths |-> person.Confidence * 100],
     flags |-> [key \in FlagKeys(v) |-> FlagText(FlagTest(person, key))],
     confidences |-> [key \in ConfidenceKeys(v) |->
                         ConfidenceText(ConfidenceValue(person, key))]]

\* records put in front of the list (unshift) instead of pushed
PerPersonResultsUnshift(v, persons) ==
    [i \in 1..Len(persons) |->
        PersonResult(v, persons[Len(persons) + 1 - i], Len(persons) - i)]

\* persons.forEach((person, index) => perPersonResults.push(personResult))
PerPersonResults(v, persons) ==
    [i \in 1..Len(persons) |-> PersonResult(v, persons[i], i - 1)]

\* the detector has answered: analyzePPEInImage builds 'Per-person results'
AnalyzePPE ==
    /\ variant \in PPEVariants
    /\ ~analysis.done
    /\ analysis' = [analysis EXCEPT !.results = PerPersonResults(variant, analysis.persons),
                                    !.done = TRUE]
    /\ UNCHANGED <<variant, signups, now, authVars, uploadVars>>

\* analyzePPEInImage is about to turn a detector response into records
InitPPE ==
    /\ variant \in PPEVariants
    /\ now = 0
    /\ signups = NoSignups
    /\ EmptyStore
    /\ FreshUploads
    /\ analysis \in {[persons |-> r, results |-> <<>>, done |-> FALSE] :
                         r \in Responses(MaxPersons, MaxDetections)}

\* analyzePPEInImage of every server that builds per-person records
SpecPPE == InitPPE /\ [][AnalyzePPE]_vars

----------------------------------------------------------------------------
(* The specification *)

Next ==
    \/ Tick
    \/ \E s \in DOMAIN req : StartUpload(s)
    \/ \E s \in DOMAIN req : ExtractEnd(s)
    \/ \E s \in DOMAIN req : ExtractError(s)
    \/ \E s \in DOMAIN req : EncodeDone(s)
    \/ \E s \in DOMAIN req : EncodeThrow(s)
    \/ \E s \in DOMAIN req : DetectOk(s)
    \/ \E s \in DOMAIN req : DetectFail(s)
    \/ \E s \in DOMAIN req : Finish(s)

\* the /upload pipeline of every server variant
Spec == Init /\ [][Next]_vars

----------------------------------------------------------------------------
(* The Lambda handler *)

\* exports.handler up to its first await: bucket, key and videoPath are read
\* from the event, s3.getObject is called
Invoke(s) ==
    /\ variant = "lambda"
    /\ nreq < MaxUploads
    /\ ~InFlight(s)
    /\ \E hs \in 1..MaxHalfSecs :
          req' = [req EXCEPT ![s] =
              [IdleReq EXCEPT !.id = nreq + 1, !.hasFile = TRUE, !.halfSecs = hs,
                              !.fresh = \A n \in Frames : frames[n] = 0,
                              !.pc = "download", !.did = {"download"}]]
    /\ nreq' = nreq + 1
    /\ UNCHANGED <<variant, signups, analysis, now, authVars, fsVars, completed, failed>>

\* s3.getObject resolves: the video is written to /tmp and ffmpeg is started
DownloadOk(s) ==
    /\ req[s].pc = "download"
    /\ req' = [req EXCEPT ![s] = [@ EXCEPT !.pc = "extract", !.did = @ \cup {"write"}]]
    /\ videoFile' = [videoFile EXCEPT ![VideoPath(variant)] = req[s].id]
    /\ UNCHANGED <<variant, signups, analysis, now, authVars, frames, shot, nreq, completed, failed>>

\* a download failure that leaves the handler as a rejection
DownloadFailedPropagates(r) ==
    [r EXCEPT !.pc = "crashed", !.did = @ \cup {"downloadError"}]

\* the request after s3.getObject rejects: the catch block returns
\* statusCode 500 with success:false and the error's message
DownloadFailed(r) ==
    Caught([r EXCEPT !.did = @ \cup {"downloadError"}], "The specified key does not exist.")

DownloadError(s) ==
    /\ req[s].pc = "download"
    /\ req' = [req EXCEPT ![s] = DownloadFailed(@)]
    /\ UNCHANGED <<variant, signups, analysis, now, authVars, fsVars, nreq, completed, failed>>

NextLambda ==
    \/ \E s \in DOMAIN req : Invoke(s)
    \/ \E s \in DOMAIN req : DownloadOk(s)
    \/ \E s \in DOMAIN req : DownloadError(s)
    \/ \E s \in DOMAIN req : ExtractEnd(s)
    \/ \E s \in DOMAIN req : ExtractError(s)
    \/ \E s \in DOMAIN req : EncodeDone(s)
    \/ \E s \in DOMAIN req : EncodeThrow(s)
    \/ \E s \in DOMAIN req : DetectOk(s)
    \/ \E s \in DOMAIN req : DetectFail(s)
    \/ \E s \in DOMAIN req : Finish(s)

\* a warm Lambda container starts with an empty /tmp
InitLambda ==
    /\ variant = "lambda"
    /\ now = 0
    /\ signups = NoSignups
    /\ EmptyStore
    /\ FreshUploads
    /\ analysis = NoAnalysis

\* the Lambda handler, one invocation after the other in one container
SpecLambda == InitLambda /\ [][NextLambda]_vars

\* the same pipeline, every handler step that can run being run in the end
\* (the event loop resumes each handler whose awaited promise has settled)
SpecLive == Init /\ [][Next]_vars /\ WF_vars(Next)

NextConc ==
    \/ Tick
    \/ \E s \in DOMAIN req : StartUploadConc(s)
    \/ \E s \in DOMAIN req : ExtractEnd(s)
    \/ \E s \in DOMAIN req : ExtractError(s)
    \/ \E s \in DOMAIN req : EncodeDone(s)
    \/ \E s \in DOMAIN req : EncodeThrow(s)
    \/ \E s \in DOMAIN req : DetectOk(s)
    \/ \E s \in DOMAIN req : DetectFail(s)
    \/ \E s \in DOMAIN req : Finish(s)

\* the /upload pipeline with two requests in flight at once: the steps of
\* the two handlers interleave at every await
SpecConc == InitConc /\ [][NextConc]_vars

NextSignup ==
    \/ \E c \in Connections : SignupStart(c)
    \/ \E c \in Connections : SignupSelected(c)
    \/ \E c \in Connections : SignupHashed(c)
    \/ \E c \in Connections : SignupInserted(c)

\* POST /signup with two requests in flight at once: the steps of the two
\* handlers interleave at every callback and await
SpecSignup == InitAuth /\ [][NextSignup]_vars

NextAuth ==
    \/ Tick
    \/ Signup
    \/ Login

\* signup and login of every variant that defines them
SpecAuth == InitAuth /\ [][NextAuth]_vars

----------------------------------------------------------------------------
(* Properties of the /upload pipeline *)

Finished(s) == req[s].id > 0 /\ req[s].pc \in {"done", "crashed"}

Answered(s) == Len(req[s].resp) = 1

\* the frame indices of a ppeData list
RECURSIVE StrictlyIncreasing(_)
StrictlyIncreasing(q) ==
    \/ Len(q) <= 1
    \/ q[1].file < q[2].file /\ StrictlyIncreasing(Tail(q))

\* the entries of the listed files whose detector call did not fail
RECURSIVE Surviving(_, _)
Surviving(files, bad) ==
    IF files = <<>> THEN <<>>
    ELSE (IF Head(files) \in bad THEN <<>> ELSE <<Head(files)>>) \o Surviving(Tail(files), bad)

FilesOf(q) == [k \in 1..Len(q) |-> q[k].file]

\* C1: an upload without a 'video' file is answered with a JSON body whose
\* success field is false, and no pipeline step runs for it (no file written,
\* no frame extracted, no detector call, no counter changed), in every variant
C1_MissingFileRejected ==
    \A s \in DOMAIN req :
        Finished(s) /\ ~req[s].hasFile =>
            /\ Answered(s)
            /\ req[s].resp[1].json
            /\ req[s].resp[1].success = "false"
            /\ req[s].did = {}

\* C2: the ppeData returned for a video has at most ceil(duration) entries,
\* with strictly increasing frame indices, whatever was uploaded before
C2_FrameCountBounded ==
    \A s \in DOMAIN req :
        Finished(s) /\ Answered(s) /\ req[s].resp[1].hasPpe /\ variant # "index" =>
            /\ Len(req[s].resp[1].ppe) <= CeilSecs(req[s].halfSecs)
            /\ StrictlyIncreasing(req[s].resp[1].ppe)

\* C3: a detector failure for a frame drops that frame only: the failed frame
\* has no entry, the loop has gone on through the files after it (every file
\* before the current one was submitted and either failed or has its entry,
\* in order), and when nothing but detector calls failed the request is
\* answered success:true with the entries of the other frames
C3_DetectorFailureDropsFrame ==
    \A s \in DOMAIN req :
        req[s].detFailed # {} /\ variant # "index" =>
            /\ \A k \in 1..Len(req[s].ppeData) : req[s].ppeData[k].file \notin req[s].detFailed
            /\ LET seen == IF req[s].pc \in {"encode", "detect"}
                           THEN SubSeq(req[s].files, 1, req[s].i - 1)
                           ELSE req[s].files
               IN  req[s].did \cap {"resizeError"} = {} =>
                      FilesOf(req[s].ppeData) = Surviving(seen, req[s].detFailed)
            /\ (req[s].pc = "done" /\ req[s].did \cap {"resizeError"} = {} =>
                   /\ Answered(s)
                   /\ req[s].resp[1].status = 200
                   /\ req[s].resp[1].success = "true"
                   /\ req[s].resp[1].ppe = req[s].ppeData
                   /\ FilesOf(req[s].ppeData) = Surviving(req[s].files, req[s].detFailed))

\* C3 happens: a request is answered success:true although the detector
\* failed for a frame, with the entry of a later frame in its ppeData
C3_Witness ==
    \E s \in DOMAIN req :
        /\ req[s].pc = "done"
        /\ Answered(s)
        /\ req[s].resp[1].success = "true"
        /\ \E f \in req[s].detFailed, k \in 1..Len(req[s].resp[1].ppe) :
              req[s].resp[1].ppe[k].file > f

\* C4: the buffer resizeAndCompressImage returns is at most 5 MB
C4_ReturnedBufferWithinLimit ==
    \A s \in DOMAIN req :
        req[s].pc = "detect" /\ Len(req[s].enc) >= 1 =>
            req[s].buf.length <= 5 * 1024 * 1024

\* C4 happens: a buffer is returned after the loop has re-encoded it
C4_Witness ==
    \E s \in DOMAIN req :
        /\ req[s].pc = "detect"
        /\ Len(req[s].enc) >= 2
        /\ req[s].enc[1].length > 5 * 1024 * 1024

\* C5: a first pass (1280, 80) of at most 5 MB is the only encode and its
\* buffer is the one returned; every later encode is (640, 50) and follows
\* an output of more than 5 MB
C5_SecondPassOnlyWhenTooLarge ==
    \A s \in DOMAIN req :
        Len(req[s].enc) >= 1 =>
            /\ req[s].enc[1].width = 1280 /\ req[s].enc[1].quality = 80
            /\ (req[s].enc[1].length <= 5 * 1024 * 1024 =>
                   /\ Len(req[s].enc) = 1
                   /\ req[s].pc = "detect"
                   /\ req[s].buf = req[s].enc[1])
            /\ \A k \in 2..Len(req[s].enc) :
                   /\ req[s].enc[k].width = 640 /\ req[s].enc[k].quality = 50
                   /\ req[s].enc[k - 1].length > 5 * 1024 * 1024
            /\ req[s].buf = req[s].enc[Len(req[s].enc)]

\* C5 happens: a first pass of exactly 5 MB is returned after one encode
C5_Witness ==
    \E s \in DOMAIN req :
        /\ req[s].pc = "detect"
        /\ Len(req[s].enc) = 1
        /\ req[s].buf.length = 5 * 1024 * 1024

----------------------------------------------------------------------------
(* Properties of login *)

\* C6: a login with an existing username and that user's password is
\* answered { success: true, token } when the query succeeds, in every
\* variant that defines login
C6_CorrectLoginGetsToken ==
    lastLogin.match /\ ~lastLogin.dbErr =>
        /\ lastLogin.resp.status = 200
        /\ lastLogin.resp.success = "true"
        /\ lastLogin.resp.hasToken
        /\ lastLogin.resp.token.uid = lastLogin.uid

\* C7: a login with a wrong password is answered 400 with an error and no
\* token, and a user who has only ever logged in with wrong passwords has no
\* token issued and no 'login' row in Logs
C7_WrongPasswordNoSession ==
    /\ (lastLogin.found /\ ~lastLogin.match =>
           /\ lastLogin.resp.status = 400
           /\ lastLogin.resp.error # "none"
           /\ ~lastLogin.resp.hasToken)
    /\ \A u \in UserIds :
           u \notin goodLogin =>
               /\ \A tok \in issued : tok.uid # u
               /\ \A k \in 1..Len(logs) :
                      ~(logs[k]["user_id"] = u /\ logs[k]["action"] = "login")

\* C7 happens: three logins with a wrong password, none with the right one
C7_Witness ==
    \E u \in UserIds :
        /\ wrongTries[u] >= 3
        /\ u \notin goodLogin
        /\ lastLogin.found /\ ~lastLogin.match
        /\ lastLogin.resp.status = 400

----------------------------------------------------------------------------
(* Properties of the authenticated upload *)

\* C8: in server.js an upload whose Authorization header is absent,
\* malformed, wrongly signed or expired is answered 401 { success: false }
\* before any pipeline step: nothing written, nothing extracted, no detector
\* call, no Logs statement
C8_NoPipelineWithoutCredential ==
    \A s \in DOMAIN req :
        /\ variant = "server"
        /\ req[s].id > 0
        /\ req[s].cred \in {"absent", "malformed", "badsig", "expired"}
        =>  /\ req[s].pc = "done"
            /\ Answered(s)
            /\ req[s].resp[1].status = 401
            /\ req[s].resp[1].json
            /\ req[s].resp[1].success = "false"
            /\ req[s].did = {}
            /\ (req[s].id = 1 =>
                   /\ \A n \in Frames : frames[n] = 0
                   /\ \A f \in VideoNames : videoFile[f] = 0
                   /\ logs = LoginLogInsert(<<>>, 1, 0))

\* C8 happens: an upload with an expired token was answered 401
C8_Witness ==
    \E s \in DOMAIN req :
        /\ variant = "server"
        /\ req[s].cred = "expired"
        /\ req[s].hasFile
        /\ req[s].pc = "done"
        /\ Answered(s)
        /\ req[s].resp[1].status = 401

\* the sum of a counter column over the 'upload' rows of a user
RECURSIVE CounterOf(_, _, _)
CounterOf(table, col, uid) ==
    IF table = <<>> THEN 0
    ELSE (IF Head(table)["user_id"] = uid /\ Head(table)["action"] = "upload"
          THEN Head(table)[col] ELSE 0) + CounterOf(Tail(table), col, uid)

\* C9: in server.js the two counters of a user equal the numbers of that
\* user's uploads whose pipeline completed and whose pipeline failed
C9_CountersMatchUploads ==
    variant = "server" =>
        \A u \in UserIds :
            /\ CounterOf(logs, "successful_requests", u) = completed[u]
            /\ CounterOf(logs, "failed_requests", u) = failed[u]

\* C10: every upload request gets exactly one response, and a request that
\* produces no ppeData gets JSON with success:false and a 4xx or 5xx status
C10_ExactlyOneResponse ==
    \A s \in DOMAIN req :
        Finished(s) =>
            /\ Answered(s)
            /\ (~req[s].resp[1].hasPpe =>
                   /\ req[s].resp[1].json
                   /\ req[s].resp[1].success = "false"
                   /\ req[s].resp[1].status >= 400
                   /\ req[s].resp[1].status <= 599)


----------------------------------------------------------------------------
(* Properties of the temporary files *)

\* the servers that keep the video and the frames under os.tmpdir()
TempDirVariants == {"render", "render_auth", "server"}

\* C11: once an upload has been answered, with success or with a failure, no
\* frame image and no video file written for that request is left in the
\* temporary directory
C11_NoTempFilesAfterResponse ==
    \A s \in DOMAIN req :
        Finished(s) /\ Answered(s) /\ variant \in TempDirVariants =>
            /\ \A n \in Frames : frames[n] # req[s].id
            /\ \A f \in VideoNames : videoFile[f] # req[s].id


----------------------------------------------------------------------------
(* Properties of concurrent uploads *)

\* C12: when two uploads are in flight at once, under every interleaving of
\* their steps, the ppeData a request is answered with holds analyses of
\* frames of its own video only, as if the request had run alone (the frame
\* folder was empty when the request started)
C12_ConcurrentUploadsIsolated ==
    \A s \in DOMAIN req :
        Finished(s) /\ Answered(s) /\ req[s].fresh /\ req[s].resp[1].hasPpe
        /\ variant # "index" =>
            \A k \in 1..Len(req[s].resp[1].ppe) :
                req[s].resp[1].ppe[k].src = req[s].id


----------------------------------------------------------------------------
(* Properties of analyzePPEInFrames *)

RECURSIVE NoDuplicates(_)
NoDuplicates(q) ==
    \/ Len(q) <= 1
    \/ (\A k \in 2..Len(q) : q[k] # q[1]) /\ NoDuplicates(Tail(q))

\* C13: when analyzePPEInFrames returns, ppeData holds exactly one entry
\* { file, ppeResult } for each .png file of the folder whose detector call
\* succeeded, no entry for any other file, no file twice, in the order the
\* files were processed
C13_OneEntryPerAnalyzedFrame ==
    \A s \in DOMAIN req :
        req[s].pc = "tail" =>
            /\ req[s].files = ReadDir(frames)
            /\ req[s].submitted = req[s].files
            /\ FilesOf(req[s].ppeData) = Surviving(req[s].submitted, req[s].detFailed)
            /\ NoDuplicates(FilesOf(req[s].ppeData))

\* C13 happens: analyzePPEInFrames returns two entries out of three frames,
\* the detector having failed for the other one
C13_Witness ==
    \E s \in DOMAIN req :
        /\ req[s].pc = "tail"
        /\ Len(req[s].files) = 3
        /\ Len(req[s].ppeData) = 2
        /\ req[s].detFailed # {}


\* the files a request has finished with: their entry is pushed or their
\* detector call has failed
Settled(r) == {r.ppeData[k].file : k \in 1..Len(r.ppeData)} \cup r.detFailed

\* C14: within one request the frames are processed one at a time: at most
\* one resize or detector call is in flight, the resize of a frame starts only
\* when the detector call of every earlier frame has finished or failed, and
\* no frame is submitted to the detector twice
C14_OneFrameAtATime ==
    \A s \in DOMAIN req :
        /\ req[s].resizes + req[s].calls <= 1
        /\ NoDuplicates(req[s].submitted)
        /\ (req[s].resizes = 1 =>
               /\ req[s].submitted = SubSeq(req[s].files, 1, req[s].i - 1)
               /\ \A k \in 1..(req[s].i - 1) : req[s].files[k] \in Settled(req[s]))
        /\ (req[s].calls = 1 /\ variant # "index" =>
               /\ req[s].submitted = SubSeq(req[s].files, 1, req[s].i)
               /\ \A k \in 1..(req[s].i - 1) : req[s].files[k] \in Settled(req[s]))

\* C14 happens: the third frame is being resized after the detector call of
\* the first one has failed and that of the second one has succeeded
C14_Witness ==
    \E s \in DOMAIN req :
        /\ req[s].resizes = 1
        /\ req[s].i = 3
        /\ req[s].detFailed = {req[s].files[1]}
        /\ Len(req[s].ppeData) = 1


----------------------------------------------------------------------------
(* Properties of the /upload response *)

\* C15: every JSON response of /upload has the shape { success, ppeData?,
\* error? }: ppeData is present exactly when success is true (status 200) and
\* is then a list; error is present exactly when success is false (status
\* 4xx or 5xx); in every variant
C15_ResponseShape ==
    \A s \in DOMAIN req :
        \A k \in 1..Len(req[s].resp) :
            LET r == req[s].resp[k] IN
            r.json =>
                /\ r.success \in {"true", "false"}
                /\ (r.success = "true" <=> r.status = 200)
                /\ (r.success = "false" <=> r.status \in 400..599)
                /\ (r.hasPpe <=> r.success = "true")
                /\ (r.hasPpe => r.ppeKind = "list")
                /\ (r.error # "none" <=> r.success = "false")


----------------------------------------------------------------------------
(* Properties of the per-person records *)

Categories == {"face", "face cover", "head", "head cover", "body", "body cover",
               "hand cover"}

HandNames == {"HAND", "LEFT_HAND", "RIGHT_HAND"}

\* the flag fields that stand for a category in some server ('Body detected'
\* in none: bodyDetected is computed and left out of the record)
FlagKeysOf(c) ==
    CASE c = "face" -> {"Face detected"}
      [] c = "face cover" -> {"Face mask detected"}
      [] c = "head" -> {"Head detected"}
      [] c = "head cover" -> {"Helmet detected"}
      [] c = "body" -> {"Body detected"}
      [] c = "body cover" -> {"Protective vest detected"}
      [] c = "hand cover" -> {"Gloves detected", "Left hand cover detected",
                              "Right hand cover detected"}

\* the confidence fields that stand for a category
ConfidenceKeysOf(c) ==
    CASE c = "face" -> {"Face detection confidence"}
      [] c = "face cover" -> {"Face mask detection confidence"}
      [] c = "head" -> {"Head detection confidence"}
      [] c = "head cover" -> {"Helmet detection confidence"}
      [] c = "body" -> {"Body detection confidence"}
      [] c = "body cover" -> {"Protective vest detection confidence"}
      [] c = "hand cover" -> {"Gloves detection confidence",
                              "Left hand cover detection confidence",
                              "Right hand cover detection confidence"}

\* the detector's response for the person holds the body part, or the
\* equipment type on its body part
InResponse(person, c) ==
    CASE c = "face" -> PartDetected(person, "FACE")
      [] c = "face cover" -> CoverDetected(person, "FACE", "FACE_COVER")
      [] c = "head" -> PartDetected(person, "HEAD")
      [] c = "head cover" -> CoverDetected(person, "HEAD", "HEAD_COVER")
      [] c = "body" -> PartDetected(person, "BODY")
      [] c = "body cover" -> CoverDetected(person, "BODY", "BODY_COVER")
      [] c = "hand cover" -> \E h \in HandNames : CoverDetected(person, h, "HAND_COVER")

\* C16: every per-person record, in every variant, holds a presence flag and a
\* confidence for each of face, face cover, head, head cover, body, body
\* cover and hand cover, and the flag is true exactly when the detector's
\* response for the person holds that body part or equipment type
C16_RecordHoldsEveryCategory ==
    analysis.done =>
        \A i \in 1..Len(analysis.results), c \in Categories :
            LET rec == analysis.results[i]
                flagKeys == FlagKeysOf(c) \cap DOMAIN rec.flags
            IN  /\ flagKeys # {}
                /\ ConfidenceKeysOf(c) \cap DOMAIN rec.confidences # {}
                /\ ((\E k \in flagKeys : rec.flags[k] = "true")
                       <=> InResponse(analysis.persons[i], c))


----------------------------------------------------------------------------
(* Properties of resizeAndCompressImage *)

\* C17: resizeAndCompressImage terminates for every input: from any
\* first-pass size, the loop that re-encodes at width 640 and quality 50
\* reaches at most 5 MB after finitely many iterations, or ends by throwing
C17_ResizeTerminates ==
    \A s \in {"r1"} : (req[s].pc = "encode") ~> (req[s].pc # "encode")


\* C18: a failure of the resize step on a frame aborts the whole request: no
\* later frame is resized or submitted to the detector, the entries collected
\* for earlier frames are not returned, and the request is answered with
\* status 500 and success:false
C18_ResizeFailureAborts ==
    \A s \in DOMAIN req :
        "resizeError" \in req[s].did =>
            /\ req[s].pc = "done"
            /\ Answered(s)
            /\ req[s].resp[1].status = 500
            /\ req[s].resp[1].success = "false"
            /\ ~req[s].resp[1].hasPpe
            /\ req[s].resp[1].ppe = <<>>
            /\ req[s].submitted = SubSeq(req[s].files, 1, req[s].i - 1)
            /\ req[s].resizes = 0
            /\ req[s].calls = 0

\* C18 happens: the resize of the second of three frames fails after the
\* first frame's entry was collected
C18_Witness ==
    \E s \in DOMAIN req :
        /\ "resizeError" \in req[s].did
        /\ req[s].pc = "done"
        /\ req[s].i = 2
        /\ Len(req[s].files) = 3
        /\ Len(req[s].ppeData) = 1


----------------------------------------------------------------------------
(* Properties of the Lambda handler *)

StageErrors == {"downloadError", "extractError", "resizeError"}

\* C19: the Lambda handler never propagates a pipeline failure: whatever the
\* outcome of the download, the frame extraction and the frame analysis, it
\* returns statusCode 200 with success:true and ppeData (the download and the
\* extraction succeeded and no resize failed) or statusCode 500 with
\* success:false and the error's message
C19_LambdaNeverThrows ==
    \A s \in DOMAIN req :
        variant = "lambda" /\ Finished(s) =>
            /\ req[s].pc = "done"
            /\ Answered(s)
            /\ req[s].resp[1].json
            /\ \/ /\ req[s].did \cap StageErrors = {}
                  /\ req[s].resp[1].status = 200
                  /\ req[s].resp[1].success = "true"
                  /\ req[s].resp[1].hasPpe
                  /\ req[s].resp[1].ppe = req[s].ppeData
               \/ /\ req[s].did \cap StageErrors # {}
                  /\ req[s].resp[1].status = 500
                  /\ req[s].resp[1].success = "false"
                  /\ ~req[s].resp[1].hasPpe
                  /\ req[s].resp[1].error # "none"

\* C19 happens: an invocation whose download failed has returned
C19_Witness ==
    \E s \in DOMAIN req :
        /\ variant = "lambda"
        /\ Finished(s)
        /\ "downloadError" \in req[s].did
        /\ req[s].resp[1].status = 500


----------------------------------------------------------------------------
(* Properties of signup *)

\* C20: after any interleaving of POST /signup requests the Users table holds
\* at most one row per username, and a signup for a username that has a row
\* is answered 400 'User already exists' and inserts no row, two concurrent
\* signups for the same new username included
C20_OneRowPerUsername ==
    /\ \A name \in UserNames : Len(SqlSelectUser(users, name)) <= 1
    /\ \A c \in Connections :
           signups[c].pc = "done" /\ signups[c].existed =>
               /\ signups[c].status = 400
               /\ signups[c].error = "User already exists"
               /\ ~signups[c].inserted


----------------------------------------------------------------------------
(* Properties of what login reveals *)

\* C21: POST /login reveals nothing about whether a username exists: a login
\* for an unknown username and a login for an existing username with a wrong
\* password get the same response (status 400, error 'Invalid credentials')
\* and leave the Logs table, and the tokens handed out, as they were
C21_LoginHidesUsernames ==
    [][ (nlogin' = nlogin + 1 /\ ~lastLogin'.dbErr /\ ~lastLogin'.match) =>
            /\ lastLogin'.resp = [status |-> 400, json |-> TRUE, success |-> "none",
                                  hasToken |-> FALSE, token |-> NoToken,
                                  error |-> "Invalid credentials"]
            /\ logs' = logs
            /\ issued' = issued ]_vars

\* C21 happens: after a login with a wrong password for an existing user, a
\* login for a username that has no row is answered
C21_Witness ==
    /\ \E u \in UserIds : wrongTries[u] >= 1
    /\ lastLogin.name \in LoginNames
    /\ ~lastLogin.dbErr
    /\ ~lastLogin.found
    /\ lastLogin.resp.status = 400


----------------------------------------------------------------------------
(* Properties of the flags and confidences of one record *)

\* the body-part flag that each equipment flag of the claim goes with
PartFlagOf(key) ==
    CASE key = "Face mask detected" -> "Face detected"
      [] key = "Helmet detected" -> "Head detected"
      [] key = "Gloves detected" -> "Hands detected"
      [] key = "Left hand cover detected" -> "Left hand detected"
      [] key = "Right hand cover detected" -> "Right hand detected"

CoverFlags == {"Face mask detected", "Helmet detected", "Gloves detected",
               "Left hand cover detected", "Right hand cover detected"}

\* C22: in every per-person record an equipment flag implies its body-part
\* flag: 'Face mask detected' is 'true' only if 'Face detected' is,
\* 'Helmet detected' only if 'Head detected', and each hand-cover flag only
\* if the matching hand flag is 'true', for every detector response
C22_CoverFlagImpliesPartFlag ==
    analysis.done =>
        \A i \in 1..Len(analysis.results) :
            LET rec == analysis.results[i] IN
            \A key \in CoverFlags \cap DOMAIN rec.flags :
                /\ PartFlagOf(key) \in DOMAIN rec.flags
                /\ (rec.flags[key] = "true" => rec.flags[PartFlagOf(key)] = "true")

\* C22 happens: a record with an equipment flag 'true', built from a person
\* whose body part carries that equipment
C22_Witness ==
    /\ analysis.done
    /\ \E i \in 1..Len(analysis.results) :
           /\ \E key \in CoverFlags \cap DOMAIN analysis.results[i].flags :
                  analysis.results[i].flags[key] = "true"
           /\ Len(analysis.persons[i].BodyParts) >= 1


\* the confidence fields of the claim, each with its flag, the body part and
\* the equipment type behind the flag
ConfidencePairs ==
    {[conf |-> "Helmet detection confidence", flag |-> "Helmet detected",
      part |-> "HEAD", type |-> "HEAD_COVER"],
     [conf |-> "Face mask detection confidence", flag |-> "Face mask detected",
      part |-> "FACE", type |-> "FACE_COVER"],
     [conf |-> "Protective vest detection confidence", flag |-> "Protective vest detected",
      part |-> "BODY", type |-> "BODY_COVER"]}

\* c is the confidence of an equipment detection of the type on a body part
\* of the name
ConfidenceOfCover(person, name, type, c) ==
    \E k \in 1..Len(person.BodyParts) :
        /\ person.BodyParts[k].Name = name
        /\ \E j \in 1..Len(person.BodyParts[k].EquipmentDetections) :
               /\ person.BodyParts[k].EquipmentDetections[j].Type = type
               /\ person.BodyParts[k].EquipmentDetections[j].Confidence = c

\* C23: in the servers that report confidences, a confidence field agrees
\* with its flag for every detector response: 'Helmet detection confidence'
\* (likewise face mask and protective vest) is 'N/A' exactly when the
\* matching '... detected' flag is 'false', and otherwise is the confidence
\* of an equipment detection of that type on that body part
C23_ConfidenceAgreesWithFlag ==
    analysis.done =>
        \A i \in 1..Len(analysis.results) :
            LET rec == analysis.results[i] IN
            \A p \in ConfidencePairs :
                p.conf \in DOMAIN rec.confidences =>
                    /\ p.flag \in DOMAIN rec.flags
                    /\ (rec.confidences[p.conf].text = "N/A"
                           <=> rec.flags[p.flag] = "false")
                    /\ (rec.flags[p.flag] = "true" =>
                           \E c \in EquipConfidences :
                               /\ rec.confidences[p.conf].hundredths = c * 100
                               /\ ConfidenceOfCover(analysis.persons[i], p.part, p.type, c))


----------------------------------------------------------------------------
(* Properties of the list of records *)

\* the record is the one built from the person
RecordOf(rec, person) ==
    /\ rec.detected.hundredths = person.Confidence * 100
    /\ \A key \in DOMAIN rec.flags :
           rec.flags[key] = "true" <=> FlagTest(person, key)

\* C24: analyzePPEInImage returns exactly one record per person of the
\* detector's response, in the detector's order, and the 'Person ID' of each
\* record is the person's position in that list, so the IDs of one frame are
\* 0..n-1 without gap or repeat
C24_OneRecordPerPersonInOrder ==
    analysis.done =>
        /\ Len(analysis.results) = Len(analysis.persons)
        /\ \A i \in 1..Len(analysis.results) :
               /\ analysis.results[i].id = i - 1
               /\ RecordOf(analysis.results[i], analysis.persons[i])
        /\ {analysis.results[i].id : i \in 1..Len(analysis.results)}
               = 0..(Len(analysis.persons) - 1)
        /\ \A i, j \in 1..Len(analysis.results) :
               analysis.results[i].id = analysis.results[j].id => i = j

\* C24 happens: two persons, the second one with a body part the first one
\* lacks, and two records with the IDs 0 and 1
C24_Witness ==
    /\ analysis.done
    /\ Len(analysis.persons) = 2
    /\ Len(analysis.persons[1].BodyParts) = 0
    /\ Len(analysis.persons[2].BodyParts) > 0
    /\ Len(analysis.results) = 2
    /\ analysis.results[1].id = 0
    /\ analysis.results[2].id = 1
    /\ \E key \in DOMAIN analysis.results[2].flags :
           analysis.results[2].flags[key] = "true"

====
